---- MODULE Spec2Model ----
(***************************************************************************)
(* Quality scoring of synthetic reviews (synthetic_reviews/quality.py) and *)
(* the guardrail generation loop that cli.py drives.                       *)
(*                                                                         *)
(* Texts are sequences of one-character strings; tokens are strings.       *)
(* Python floats are modelled as exact fractions <<num, den>>, den > 0:    *)
(* a quotient of the code is a correctly rounded division of two small     *)
(* integers, and so is a literal, so comparing the fractions compares the  *)
(* floats.  A subtraction from 1.0 rounds a second time: its result is     *)
(* <<num, den, off>>, where off says on which side of the correctly        *)
(* rounded num/den the float lies (see one_minus).                         *)
(***************************************************************************)
EXTENDS Integers, Sequences, FiniteSets, TLC

VARIABLES
    reviews,              \* the list passed to annotate_quality (records mutated in place)
    domain_keywords,      \* argument: Absent or Given(a sequence of keyword texts)
    expected_rating_dist, \* argument: Absent or Given(a mapping rating -> fraction)
    keywords,             \* the local domain_keywords after lines 65-89
    seen_token_sets,
    vocab_divs,
    novelties,
    realism_scores,
    sentiment_scores,
    rejections,
    rating_hist,
    idx,                  \* number of reviews the for loop has processed
    pc,                   \* position of the call: "entry", "loop", "returned"
    summary,              \* the QualitySummary returned, <<>> before the return
    call,                 \* which call of the caller this is: 1 or 2
    first,                \* what call 1 left: the quality records and the summary
    \* generate_many_with_guardrails and the cli.py lines that report on it
    target_count,         \* argument: the number of accepted reviews wanted
    provider,             \* argument: which kind of candidates the provider yields
    accepted,
    attempts,
    corpus,               \* the loop's novelty tracker: token sets of the candidates scored
    candidate,            \* the candidate requested and not yet scored, <<>> if none
    produced,             \* history: the candidates the provider produced, as scored
    gpc,                  \* position of the loop: "test", "score", "returned", "reported"
    rejection_rate,       \* cli.py's rejection_rate, <<>> before line 59
    \* a caller of jaccard on its own
    arg_a,                \* argument a: a set of tokens
    arg_b,                \* argument b: a set of tokens
    result                \* what the calls returned, <<>> before them

annotate_vars == <<reviews, domain_keywords, expected_rating_dist, keywords,
                   seen_token_sets, vocab_divs, novelties, realism_scores,
                   sentiment_scores, rejections, rating_hist, idx, pc, summary, call,
                   first>>

guardrail_vars == <<target_count, provider, accepted, attempts, corpus, candidate,
                    produced, gpc, rejection_rate>>

jaccard_vars == <<arg_a, arg_b, result>>

vars == <<annotate_vars, guardrail_vars, jaccard_vars>>

\* An optional argument: Absent is Python's None, Given(v) carries the value.
Absent == [given |-> FALSE, value |-> <<>>]
Given(v) == [given |-> TRUE, value |-> v]

\* A float field that holds None (a set one holds a fraction, see below).
None == <<>>

\* Optional[bool]: None, True, False
PyNone == "None"
PyTrue == "True"
PyFalse == "False"
py_bool(b) == IF b THEN PyTrue ELSE PyFalse

----------------------------------------------------------------------------
(* Bounds of the model *)

MaxReviews == 3
MaxTarget == 2
\* attempts is counted up to MaxAttempts; see Request
MaxAttempts == 4

----------------------------------------------------------------------------
(* Fractions *)

Frac(n, d) == <<n, d>>
Zero == Frac(0, 1)
One == Frac(1, 1)
\* the side of the correctly rounded value on which the float lies: -1, 0, 1
Off(a) == IF Len(a) > 2 THEN a[3] ELSE 0
FEq(a, b) == a[1] * b[2] = b[1] * a[2] /\ Off(a) = Off(b)
FLt(a, b) ==
    \/ a[1] * b[2] < b[1] * a[2]
    \/ a[1] * b[2] = b[1] * a[2] /\ Off(a) < Off(b)
FLe(a, b) == FLt(a, b) \/ FEq(a, b)
FAdd(a, b) == Frac(a[1] * b[2] + b[1] * a[2], a[2] * b[2])
FSub(a, b) == Frac(a[1] * b[2] - b[1] * a[2], a[2] * b[2])
FMul(a, b) == Frac(a[1] * b[1], a[2] * b[2])
FDivInt(a, n) == Frac(a[1], a[2] * n)

RECURSIVE FSum(_)
FSum(s) == IF s = <<>> THEN Zero ELSE FAdd(s[1], FSum(Tail(s)))

\* max of a non-empty sequence: its first element that none exceeds
FMax(s) ==
    CHOOSE m \in {v[CHOOSE j \in 1..Len(v) :
                        /\ \A k \in 1..Len(v) : FLe(v[k], v[j])
                        /\ \A h \in 1..(j - 1) : FLt(v[h], v[j])] : v \in {s}} : TRUE

----------------------------------------------------------------------------
(* 1.0 - x in IEEE-754 double arithmetic, for x the double nearest to n/d.   *)
(* A double in [2^-e, 2^-(e-1)) is a multiple of 2^-(52+e).  The operators   *)
(* below find on which side of the double nearest to 1 - n/d the difference  *)
(* 1.0 - x lies, from the remainders of n * 2^p modulo small numbers.        *)

Mantissa == 53

\* 2^p modulo m, by p doublings
Pow2Mod(p, m) ==
    LET pw[i \in 0..p] == IF i = 0 THEN 1 % m ELSE (2 * pw[i - 1]) % m
    IN pw[p]

\* n * 2^p modulo m
Residue(n, p, m) == (n * Pow2Mod(p, m)) % m

\* the e >= 1 with 2^-e <= n/d < 2^-(e-1), for 0 < n < d
Exponent(n, d) == CHOOSE e \in 1..20 : n * 2^e >= d /\ n * 2^(e - 1) < d

\* 1 if n * 2^p / d rounds up to the next integer, 0 if it rounds down (a tie
\* cannot occur unless the quotient is an integer)
RoundsUp(n, d, p) == IF 2 * Residue(n, p, d) > d THEN 1 ELSE 0

\* x >= 0.5: 1.0 - x is exact; it is compared with the double nearest to
\* 1 - n/d in units of 2^-(52+f), f the exponent of 1 - n/d
side_upper_half(n, d) ==
    LET k == Exponent(d - n, d) - 1
        r == Residue(n, Mantissa, d)
        c == RoundsUp(n, d, Mantissa)
        nearest == (2 * r * 2^k + d) \div (2 * d)
    IN nearest - c * 2^k

\* x < 0.5: x is a multiple of 2^-(52+e) and 1.0 - x, in [0.5, 1), is rounded
\* to a multiple of 2^-53, half to even
side_lower_half(n, d) ==
    LET e == Exponent(n, d)
        k == e - 1
        p == Mantissa + k
        qlow == Residue(n, p, d * 2^(k + 1)) \div d
        c == RoundsUp(n, d, p)
        mlow == qlow + c
        t == mlow % 2^k
        carry == IF (qlow % 2^k) + c = 2^k THEN 1 ELSE 0
        odd == (mlow \div 2^k) % 2
        u == IF 2 * t > 2^k THEN 1 ELSE IF 2 * t < 2^k THEN 0 ELSE odd
    IN RoundsUp(n, d, Mantissa) - carry - u

Sign(z) == IF z > 0 THEN 1 ELSE IF z < 0 THEN -1 ELSE 0

\* 1.0 - x for x the double nearest to n/d, 0 <= n <= d
rounded_difference(n, d) ==
    IF n = 0 \/ n = d THEN <<d - n, d, 0>>
    ELSE IF 2 * n >= d THEN <<d - n, d, Sign(side_upper_half(n, d))>>
    ELSE <<d - n, d, Sign(side_lower_half(n, d))>>

\* 1.0 - x for x the double nearest to the fraction x[1]/x[2] in [0,1]
one_minus(x) ==
    CHOOSE y \in {rounded_difference(v[1], v[2]) : v \in {x}} : TRUE

----------------------------------------------------------------------------
(* Tokenizer: WORD_RE = \w+ and str.lower *)

UpperChars == {"A", "B", "I", "M", "P"}
LowerChars == {"a", "b", "c", "d", "g", "i", "m", "n", "p", "u", "z"}
WordChars == UpperChars \cup LowerChars \cup {"_", "0", "1"}

lower_char(c) ==
    CASE c = "A" -> "a"
      [] c = "B" -> "b"
      [] c = "I" -> "i"
      [] c = "M" -> "m"
      [] c = "P" -> "p"
      [] OTHER -> c

RECURSIVE lower(_)
lower(w) == IF w = <<>> THEN "" ELSE lower_char(w[1]) \o lower(Tail(w))

\* WORD_RE.findall: the maximal runs of word characters, left to right.
\* A run starts at a word character that has no word character before it and
\* ends at the first word character from there that has none after it.
findall(text) ==
    LET n == Len(text)
        starts == {i \in 1..n : text[i] \in WordChars
                                 /\ (i = 1 \/ text[i - 1] \notin WordChars)}
        is_end(j) == text[j] \in WordChars /\ (j = n \/ text[j + 1] \notin WordChars)
        rank == [i \in starts |-> Cardinality({h \in starts : h < i})]
        start(k) == CHOOSE i \in starts : rank[i] = k - 1
        end(i) == CHOOSE j \in i..n : is_end(j) /\ \A h \in i..(j - 1) : ~is_end(h)
    IN [k \in 1..Cardinality(starts) |-> SubSeq(text, start(k), end(start(k)))]

\* The body texts of the model
RECURSIVE Rep(_, _)
Rep(text, k) == IF k = 0 THEN <<>> ELSE text \o Rep(text, k - 1)

PhraseFive == <<"A", "P", "I", " ", "c", "i", " ", "a", " ", "b", " ", "c", " ">>
PhraseFour == <<"a", "p", "i", ",", "c", "i", " ", "a", " ", "b", " ">>

BodyEmpty == <<>>
\* "?!.": punctuation only, no token
BodyPunct == <<"?", "!", ".">>
\* "Amazing API!": 2 tokens, both distinct
BodyHype == <<"A", "m", "a", "z", "i", "n", "g", " ", "A", "P", "I", "!">>
\* 30 tokens over {api, ci, a, b, c}
BodyLong == Rep(PhraseFive, 6)
\* 31 tokens over {api, ci, a, b, c, bug}: jaccard 5/6 with BodyLong
BodyLongBug == Rep(PhraseFive, 6) \o <<"B", "u", "g", ".">>
\* 32 tokens over {api, ci, a, b}: jaccard exactly 4/5 with BodyLong
BodyFourFifths == Rep(PhraseFour, 8)
\* 29 tokens over {api, ci, a, b, c, b_c, d}
BodyTwentyNine == Rep(PhraseFive, 5) \o <<"a", " ", "b", "_", "c", "-", "d", " ", "d">>
\* 30 tokens over {a, b, c}: none of the default keywords
BodyPlain == Rep(<<"a", " ", "b", " ", "c", " ">>, 10)

Bodies ==
    {BodyEmpty, BodyPunct, BodyHype, BodyLong, BodyLongBug, BodyFourFifths, BodyTwentyNine,
     BodyPlain}

\* tokenize, line 16, as the code computes it
tokenize_text(text) ==
    LET ws == findall(text)
    IN [k \in 1..Len(ws) |-> lower(ws[k])]

\* tokenize of the model's bodies, computed once
TokensOfBodies == [b \in Bodies |-> tokenize_text(b)]

tokenize(text) ==
    IF text \in DOMAIN TokensOfBodies THEN TokensOfBodies[text] ELSE tokenize_text(text)

set(tokens) == UNION {{v[k] : k \in 1..Len(v)} : v \in {tokens}}

----------------------------------------------------------------------------
(* Lexical metrics *)

\* jaccard with the union's size taken as the sum of the two sizes
jaccard_sum_as_union(a, b) ==
    IF a = {} /\ b = {} THEN Zero
    ELSE LET inter == Cardinality(a \cap b)
             union == Cardinality(a) + Cardinality(b)
         IN IF union # 0 THEN Frac(inter, union) ELSE Zero

jaccard(a, b) ==
    IF a = {} /\ b = {} THEN Zero
    ELSE LET inter == Cardinality(a \cap b)
             union == Cardinality(a \cup b)
         IN IF union # 0 THEN Frac(inter, union) ELSE Zero

_compute_sentiment_score(token_set) ==
    LET positive_words == {"great", "excellent", "good", "love", "best", "perfect",
                           "amazing", "easy", "helpful", "fast", "reliable",
                           "powerful", "smooth", "efficient"}
        negative_words == {"bad", "poor", "worst", "hate", "terrible", "awful", "slow",
                           "bug", "crash", "fail", "broken", "unusable",
                           "frustrating", "confusing"}
        pos_count == Cardinality(token_set \cap positive_words)
        neg_count == Cardinality(token_set \cap negative_words)
        total == Cardinality(token_set)
    IN IF total > 0 THEN Frac(pos_count - neg_count, total) ELSE Zero

DefaultDomainKeywords ==
    {"api", "endpoint", "request", "response", "debug", "debugging", "auth", "token",
     "rest", "http", "headers", "payload", "json", "postman", "insomnia", "hoppscotch",
     "ci", "pipeline", "test", "testing"}

MinTokens == 30
HighOverlap == Frac(8, 10)
MinRealism == Frac(5, 100)
NegativeWords == {"bug", "crash", "fail", "broken", "unusable"}
PositiveHype == {"perfect", "flawless", "amazing", "incredible"}

----------------------------------------------------------------------------
(* One iteration of the for loop of annotate_quality, lines 100-147: the     *)
(* values it computes for review r against the corpus seen so far.           *)

\* max_jaccard comparing with the latest corpus entry only
max_jaccard_last_only(token_set, seen) ==
    IF seen # <<>> THEN jaccard(token_set, seen[Len(seen)]) ELSE Zero

\* lines 107-110 (the set {ts} holds token_set alone: it is evaluated once)
max_jaccard(token_set, seen) ==
    IF seen # <<>>
    THEN CHOOSE m \in {FMax([k \in 1..Len(seen) |-> jaccard(ts, seen[k])]) :
                          ts \in {token_set}} : TRUE
    ELSE Zero

domain_realism(token_set, kw) ==
    IF kw # {}
    THEN Frac(Cardinality(token_set \cap kw), Cardinality(kw))
    ELSE Zero

\* bias_flags with too_short at 30 tokens as well
bias_flags_short_at_limit(total_tokens, max_j, realism, rating, token_set) ==
    (IF total_tokens <= MinTokens THEN <<"too_short">> ELSE <<>>)
    \o (IF FLt(HighOverlap, max_j) THEN <<"high_overlap">> ELSE <<>>)
    \o (IF FLt(realism, MinRealism) THEN <<"low_domain_realism">> ELSE <<>>)
    \o (IF rating >= 4 /\ (token_set \cap NegativeWords) # {}
        THEN <<"rating_text_mismatch">> ELSE <<>>)
    \o (IF rating <= 2 /\ (token_set \cap PositiveHype) # {}
        THEN <<"rating_text_mismatch">> ELSE <<>>)

bias_flags(total_tokens, max_j, realism, rating, token_set) ==
    (IF total_tokens < MinTokens THEN <<"too_short">> ELSE <<>>)
    \o (IF FLt(HighOverlap, max_j) THEN <<"high_overlap">> ELSE <<>>)
    \o (IF FLt(realism, MinRealism) THEN <<"low_domain_realism">> ELSE <<>>)
    \o (IF rating >= 4 /\ (token_set \cap NegativeWords) # {}
        THEN <<"rating_text_mismatch">> ELSE <<>>)
    \o (IF rating <= 2 /\ (token_set \cap PositiveHype) # {}
        THEN <<"rating_text_mismatch">> ELSE <<>>)

\* is_accepted tolerating one flag
is_accepted_one_flag(flags) == py_bool(Len(flags) <= 1)

is_accepted(flags) == py_bool(Len(flags) = 0)

\* vocab_diversity giving 1.0 for a body without tokens
vocab_diversity_empty_is_one(unique_tokens, total_tokens) ==
    IF total_tokens > 0 THEN Frac(unique_tokens, total_tokens) ELSE One

vocab_diversity(unique_tokens, total_tokens) ==
    IF total_tokens > 0 THEN Frac(unique_tokens, total_tokens) ELSE Zero

score(r, kw, seen) ==
    LET tokens == tokenize(r.body)
        token_set == set(tokens)
        total_tokens == Len(tokens)
        unique_tokens == Cardinality(token_set)
        vocab_div == vocab_diversity(unique_tokens, total_tokens)
        max_j == max_jaccard(token_set, seen)
        novelty == one_minus(max_j)
        realism == domain_realism(token_set, kw)
        flags == bias_flags(total_tokens, max_j, realism, r.rating, token_set)
    IN [token_set |-> token_set,
        max_j |-> max_j,
        sentiment |-> _compute_sentiment_score(token_set),
        quality |-> [vocab_diversity |-> vocab_div,
                     semantic_novelty |-> novelty,
                     domain_realism |-> realism,
                     bias_flags |-> flags,
                     is_accepted |-> is_accepted(flags)]]

----------------------------------------------------------------------------
(* Inputs *)

\* QualityRecord as created with its Review: every field unset
UnsetQuality ==
    [vocab_diversity |-> None, semantic_novelty |-> None, domain_realism |-> None,
     bias_flags |-> <<>>, is_accepted |-> PyNone]

Review(body, rating) == [body |-> body, rating |-> rating, quality |-> UnsetQuality]

\* The reviews a list is drawn from: each body with the ratings on both sides
\* of the rating rules it can trigger.
ReviewInputs ==
    {Review(BodyEmpty, 3),
     Review(BodyHype, 2), Review(BodyHype, 3), Review(BodyHype, 4),
     Review(BodyLong, 4),
     Review(BodyLongBug, 2), Review(BodyLongBug, 3), Review(BodyLongBug, 4),
     Review(BodyFourFifths, 5),
     Review(BodyTwentyNine, 1)}

RECURSIVE SeqsUpTo(_, _)
SeqsUpTo(S, n) ==
    IF n = 0 THEN {<<>>}
    ELSE LET shorter == SeqsUpTo(S, n - 1)
         IN shorter \cup {Append(s, x) : s \in shorter, x \in S}

ReviewLists == SeqsUpTo(ReviewInputs, MaxReviews)

\* "Bug", "bug", "d": a caller's keyword list with a capital and a repeat
CustomKeywords == << <<"B", "u", "g">>, <<"b", "u", "g">>, <<"d">> >>

\* (domain_keywords, expected_rating_dist) as callers pass them
CallArgs ==
    {<<Absent, Absent>>,
     <<Absent, Given((4 :> Frac(1, 2)) @@ (5 :> Frac(1, 2)))>>,
     <<Given(<<>>), Given(<<>>)>>,
     <<Given(CustomKeywords), Given(5 :> Frac(1, 1))>>}

----------
(* annotate_quality *)

\* normalize_keywords falling back to the defaults for an empty collection
\* as well (a truthiness test in place of "is None")
normalize_keywords_empty_as_default(dk) ==
    IF ~dk.given \/ dk.value = <<>>
    THEN DefaultDomainKeywords
    ELSE {lower(dk.value[k]) : k \in 1..Len(dk.value)}

\* lines 65-89: the default keywords, or the caller's in lower case
normalize_keywords(dk) ==
    IF ~dk.given
    THEN DefaultDomainKeywords
    ELSE {lower(dk.value[k]) : k \in 1..Len(dk.value)}

\* no guardrail run in progress
GuardrailIdle ==
    /\ target_count = 0
    /\ provider = "none"
    /\ accepted = <<>>
    /\ attempts = 0
    /\ corpus = <<>>
    /\ candidate = <<>>
    /\ produced = <<>>
    /\ gpc = "idle"
    /\ rejection_rate = <<>>

\* no call of jaccard on its own
JaccardIdle ==
    /\ arg_a = {}
    /\ arg_b = {}
    /\ result = <<>>

Init ==
    /\ reviews \in ReviewLists
    /\ \E a \in CallArgs : domain_keywords = a[1] /\ expected_rating_dist = a[2]
    /\ keywords = {}
    /\ seen_token_sets = <<>>
    /\ vocab_divs = <<>>
    /\ novelties = <<>>
    /\ realism_scores = <<>>
    /\ sentiment_scores = <<>>
    /\ rejections = 0
    /\ rating_hist = <<>>
    /\ idx = 0
    /\ pc = "entry"
    /\ summary = <<>>
    /\ call = 1
    /\ first = <<>>
    /\ GuardrailIdle
    /\ JaccardIdle

\* Enter with the corpus kept from the previous call
Enter_keeping_corpus ==
    /\ pc = "entry"
    /\ keywords' = normalize_keywords(domain_keywords)
    /\ seen_token_sets' = seen_token_sets
    /\ vocab_divs' = <<>>
    /\ novelties' = <<>>
    /\ realism_scores' = <<>>
    /\ sentiment_scores' = <<>>
    /\ rejections' = 0
    /\ rating_hist' = <<>>
    /\ idx' = 0
    /\ pc' = "loop"
    /\ UNCHANGED <<reviews, domain_keywords, expected_rating_dist, summary, call, first>>
    /\ UNCHANGED <<guardrail_vars, jaccard_vars>>

\* Enter with the corpus holding the token sets of the whole list
Enter_with_full_corpus ==
    /\ pc = "entry"
    /\ keywords' = normalize_keywords(domain_keywords)
    /\ seen_token_sets' = [k \in 1..Len(reviews) |-> set(tokenize(reviews[k].body))]
    /\ vocab_divs' = <<>>
    /\ novelties' = <<>>
    /\ realism_scores' = <<>>
    /\ sentiment_scores' = <<>>
    /\ rejections' = 0
    /\ rating_hist' = <<>>
    /\ idx' = 0
    /\ pc' = "loop"
    /\ UNCHANGED <<reviews, domain_keywords, expected_rating_dist, summary, call, first>>
    /\ UNCHANGED <<guardrail_vars, jaccard_vars>>

\* lines 65-97: the keyword set and the empty accumulators
Enter ==
    /\ pc = "entry"
    /\ keywords' = normalize_keywords(domain_keywords)
    /\ seen_token_sets' = <<>>
    /\ vocab_divs' = <<>>
    /\ novelties' = <<>>
    /\ realism_scores' = <<>>
    /\ sentiment_scores' = <<>>
    /\ rejections' = 0
    /\ rating_hist' = <<>>
    /\ idx' = 0
    /\ pc' = "loop"
    /\ UNCHANGED <<reviews, domain_keywords, expected_rating_dist, summary, call, first>>
    /\ UNCHANGED <<guardrail_vars, jaccard_vars>>

\* dict.get that never finds the key
hist_get_always_default(h, k, default) == default

hist_get(h, k, default) == IF k \in DOMAIN h THEN h[k] ELSE default

hist_put(h, k, v) == [j \in DOMAIN h \cup {k} |-> IF j = k THEN v ELSE h[j]]

\* lines 99-157: one iteration of the for loop
LoopBody ==
    /\ pc = "loop"
    /\ idx < Len(reviews)
    /\ \E s \in {score(reviews[idx + 1], keywords, seen_token_sets)} :
       LET r == reviews[idx + 1]
       IN /\ reviews' = [reviews EXCEPT ![idx + 1].quality = s.quality]
          /\ sentiment_scores' = Append(sentiment_scores, s.sentiment)
          /\ seen_token_sets' = Append(seen_token_sets, s.token_set)
          /\ vocab_divs' = Append(vocab_divs, s.quality.vocab_diversity)
          /\ novelties' = Append(novelties, s.quality.semantic_novelty)
          /\ realism_scores' = Append(realism_scores, s.quality.domain_realism)
          /\ rejections' = IF s.quality.is_accepted # PyTrue
                           THEN rejections + 1 ELSE rejections
          /\ rating_hist' = hist_put(rating_hist, r.rating,
                                     hist_get(rating_hist, r.rating, 0) + 1)
    /\ idx' = idx + 1
    /\ UNCHANGED <<domain_keywords, expected_rating_dist, keywords, pc, summary, call, first>>
    /\ UNCHANGED <<guardrail_vars, jaccard_vars>>

high_rating_count(rs) == Cardinality({k \in 1..Len(rs) : rs[k].rating >= 4})

low_rating_count(rs) == Cardinality({k \in 1..Len(rs) : rs[k].rating <= 2})

RECURSIVE skew_terms(_, _, _)
skew_terms(ratings, actual_dist, expected) ==
    IF ratings = <<>> THEN Zero
    ELSE LET rating == ratings[1]
             e == hist_get(expected, rating, Zero)
             a == hist_get(actual_dist, rating, Zero)
             d == FSub(a, e)
         IN FAdd(FMul(d, d), skew_terms(Tail(ratings), actual_dist, expected))

\* rating_skew_score with a bucket for every rating from 0 to 7
rating_skew_score_wide_buckets(hist, n, expected) ==
    IF expected.given /\ DOMAIN expected.value # {}
    THEN LET actual_dist == [k \in DOMAIN hist |-> Frac(hist[k], n)]
         IN skew_terms(<<0, 1, 2, 3, 4, 5, 6, 7>>, actual_dist, expected.value)
    ELSE Zero

rating_skew_score(hist, n, expected) ==
    IF expected.given /\ DOMAIN expected.value # {}
    THEN LET actual_dist == [k \in DOMAIN hist |-> Frac(hist[k], n)]
         IN skew_terms(<<1, 2, 3, 4, 5>>, actual_dist, expected.value)
    ELSE Zero

mean(xs, n) == IF xs # <<>> THEN FDivInt(FSum(xs), n) ELSE Zero

\* lines 159-189: the reduction and the return
Finish ==
    /\ pc = "loop"
    /\ idx = Len(reviews)
    /\ LET n == IF Len(reviews) # 0 THEN Len(reviews) ELSE 1
       IN summary' =
            [avg_vocab_diversity |-> mean(vocab_divs, n),
             avg_semantic_novelty |-> mean(novelties, n),
             avg_domain_realism |-> mean(realism_scores, n),
             rejection_rate |-> Frac(rejections, n),
             rating_histogram |-> rating_hist,
             high_rating_ratio |-> Frac(high_rating_count(reviews), n),
             low_rating_ratio |-> Frac(low_rating_count(reviews), n),
             rating_skew_score |-> rating_skew_score(rating_hist, n, expected_rating_dist),
             avg_sentiment_score |-> mean(sentiment_scores, n)]
    /\ pc' = "returned"
    /\ UNCHANGED <<reviews, domain_keywords, expected_rating_dist, keywords,
                   seen_token_sets, vocab_divs, novelties, realism_scores,
                   sentiment_scores, rejections, rating_hist, idx, call, first>>
    /\ UNCHANGED <<guardrail_vars, jaccard_vars>>

\* the caller runs annotate_quality on the same list a second time
CallAgain ==
    /\ pc = "returned"
    /\ call = 1
    /\ first' = [quality |-> [k \in 1..Len(reviews) |-> reviews[k].quality],
                 summary |-> summary]
    /\ call' = 2
    /\ pc' = "entry"
    /\ summary' = <<>>
    /\ UNCHANGED <<reviews, domain_keywords, expected_rating_dist, keywords,
                   seen_token_sets, vocab_divs, novelties, realism_scores,
                   sentiment_scores, rejections, rating_hist, idx>>
    /\ UNCHANGED <<guardrail_vars, jaccard_vars>>

Next == Enter \/ LoopBody \/ Finish \/ CallAgain

Spec == Init /\ [][Next]_vars

\* A caller that annotates a list and then a second list made of the same
\* review objects: the first list with more reviews after it, or the first
\* list in reverse order.
OrderReviewInputs ==
    {Review(BodyEmpty, 3), Review(BodyHype, 2), Review(BodyLong, 4),
     Review(BodyLongBug, 3), Review(BodyFourFifths, 5), Review(BodyTwentyNine, 1)}

OrderInit ==
    /\ reviews \in SeqsUpTo(OrderReviewInputs, MaxReviews)
    /\ domain_keywords \in {Absent, Given(CustomKeywords)}
    /\ expected_rating_dist = Absent
    /\ keywords = {}
    /\ seen_token_sets = <<>>
    /\ vocab_divs = <<>>
    /\ novelties = <<>>
    /\ realism_scores = <<>>
    /\ sentiment_scores = <<>>
    /\ rejections = 0
    /\ rating_hist = <<>>
    /\ idx = 0
    /\ pc = "entry"
    /\ summary = <<>>
    /\ call = 1
    /\ first = <<>>
    /\ GuardrailIdle
    /\ JaccardIdle

\* what the first call left, and how the second list is made from the first
FirstCall(kind) ==
    [quality |-> [k \in 1..Len(reviews) |-> reviews[k].quality],
     summary |-> summary,
     kind |-> kind]

\* annotate_quality(L + M): the reviews of L, then new ones
CallExtended ==
    /\ pc = "returned"
    /\ call = 1
    /\ \E m \in SeqsUpTo(OrderReviewInputs, MaxReviews - Len(reviews)) \ {<<>>} :
          reviews' = reviews \o m
    /\ first' = FirstCall("extended")
    /\ call' = 2
    /\ pc' = "entry"
    /\ summary' = <<>>
    /\ UNCHANGED <<domain_keywords, expected_rating_dist, keywords, seen_token_sets,
                   vocab_divs, novelties, realism_scores, sentiment_scores, rejections,
                   rating_hist, idx>>
    /\ UNCHANGED <<guardrail_vars, jaccard_vars>>

Reverse(s) == [k \in 1..Len(s) |-> s[Len(s) + 1 - k]]

\* annotate_quality(L[::-1]): the reviews of L, last first
CallReversed ==
    /\ pc = "returned"
    /\ call = 1
    /\ Len(reviews) >= 2
    /\ reviews' = Reverse(reviews)
    /\ first' = FirstCall("reversed")
    /\ call' = 2
    /\ pc' = "entry"
    /\ summary' = <<>>
    /\ UNCHANGED <<domain_keywords, expected_rating_dist, keywords, seen_token_sets,
                   vocab_divs, novelties, realism_scores, sentiment_scores, rejections,
                   rating_hist, idx>>
    /\ UNCHANGED <<guardrail_vars, jaccard_vars>>

OrderNext == Enter \/ LoopBody \/ Finish \/ CallExtended \/ CallReversed

OrderSpec == OrderInit /\ [][OrderNext]_vars

\* The same calls on reviews at the edge of what callers pass: bodies without
\* tokens, ratings outside 1..5, an expected distribution with such a rating.
EdgeReviewInputs ==
    {Review(BodyEmpty, 3), Review(BodyPunct, 5), Review(BodyHype, 0),
     Review(BodyLong, 4), Review(BodyLong, 7), Review(BodyFourFifths, 5),
     Review(BodyPlain, 3)}

EdgeReviewLists == SeqsUpTo(EdgeReviewInputs, MaxReviews)

EdgeCallArgs ==
    CallArgs \cup {<<Absent, Given((4 :> Frac(1, 2)) @@ (7 :> Frac(1, 2)))>>}

EdgeInit ==
    /\ reviews \in EdgeReviewLists
    /\ \E a \in EdgeCallArgs : domain_keywords = a[1] /\ expected_rating_dist = a[2]
    /\ keywords = {}
    /\ seen_token_sets = <<>>
    /\ vocab_divs = <<>>
    /\ novelties = <<>>
    /\ realism_scores = <<>>
    /\ sentiment_scores = <<>>
    /\ rejections = 0
    /\ rating_hist = <<>>
    /\ idx = 0
    /\ pc = "entry"
    /\ summary = <<>>
    /\ call = 1
    /\ first = <<>>
    /\ GuardrailIdle
    /\ JaccardIdle

EdgeSpec == EdgeInit /\ [][Next]_vars

----------------------------------------------------------------------------
(* generate_many_with_guardrails, which cli.py calls at lines 55-57, and the  *)
(* report cli.py makes of its result at lines 58-61.  The function's source  *)
(* is not among the files at hand; the loop follows the protocol documented  *)
(* for it: an empty tracker, accepted = [], attempts = 0; then, until         *)
(* accepted holds target_count reviews, request one candidate, count the     *)
(* attempt, score it against the tracker and keep it if it is accepted.      *)

\* the candidates a provider can yield
ProviderPool ==
    {Review(BodyEmpty, 3), Review(BodyHype, 2), Review(BodyLong, 4),
     Review(BodyLongBug, 3), Review(BodyFourFifths, 5)}

\* what the provider can return on its next call: a "short_only" provider
\* returns bodies under 30 tokens, a "same_body" provider returns on every
\* call what it returned on the first, a "varied" one anything of the pool
Yields(kind) ==
    IF kind = "short_only"
    THEN {c \in ProviderPool : Len(tokenize(c.body)) < MinTokens}
    ELSE IF kind = "same_body" /\ produced # <<>>
    THEN {Review(produced[1].body, produced[1].rating)}
    ELSE ProviderPool

\* no annotate_quality call in progress
AnnotateIdle ==
    /\ reviews = <<>>
    /\ expected_rating_dist = Absent
    /\ seen_token_sets = <<>>
    /\ vocab_divs = <<>>
    /\ novelties = <<>>
    /\ realism_scores = <<>>
    /\ sentiment_scores = <<>>
    /\ rejections = 0
    /\ rating_hist = <<>>
    /\ idx = 0
    /\ pc = "idle"
    /\ summary = <<>>
    /\ call = 1
    /\ first = <<>>

GuardInit ==
    /\ AnnotateIdle
    /\ JaccardIdle
    /\ domain_keywords \in {Absent, Given(CustomKeywords)}
    /\ keywords = normalize_keywords(domain_keywords)
    /\ target_count \in 0..MaxTarget
    /\ provider \in {"varied", "short_only", "same_body"}
    /\ accepted = <<>>
    /\ attempts = 0
    /\ corpus = <<>>
    /\ candidate = <<>>
    /\ produced = <<>>
    /\ gpc = "test"
    /\ rejection_rate = <<>>

\* The loop asks the provider for one more candidate and counts the attempt.
\* The loop itself has no cap.  The model counts attempts up to MaxAttempts;
\* past that it follows only the iterations whose candidate repeats a token
\* set of the corpus, which leave the corpus entries and accepted as they are,
\* and attempts then stands for "MaxAttempts or more".
Request ==
    /\ gpc = "test"
    /\ Len(accepted) # target_count
    /\ \E c \in Yields(provider) :
          /\ attempts < MaxAttempts
             \/ \E k \in 1..Len(corpus) : corpus[k] = set(tokenize(c.body))
          /\ candidate' = c
    /\ attempts' = IF attempts < MaxAttempts THEN attempts + 1 ELSE attempts
    /\ gpc' = "score"
    /\ UNCHANGED <<target_count, provider, accepted, corpus, produced, rejection_rate>>
    /\ UNCHANGED <<annotate_vars, jaccard_vars>>

\* The candidate is scored against the loop's tracker, which records its
\* token set, and is kept if it is accepted.
Score ==
    /\ gpc = "score"
    /\ \E s \in {score(candidate, keywords, corpus)} :
       LET scored == [candidate EXCEPT !.quality = s.quality]
           counted == Len(corpus) < MaxAttempts
       IN /\ corpus' = IF counted THEN Append(corpus, s.token_set) ELSE corpus
          /\ produced' = IF counted THEN Append(produced, scored) ELSE produced
          /\ accepted' = IF s.quality.is_accepted = PyTrue
                         THEN Append(accepted, scored)
                         ELSE accepted
    /\ candidate' = <<>>
    /\ gpc' = "test"
    /\ UNCHANGED <<target_count, provider, attempts, rejection_rate>>
    /\ UNCHANGED <<annotate_vars, jaccard_vars>>

\* accepted holds target_count reviews: the function returns
Return ==
    /\ gpc = "test"
    /\ Len(accepted) = target_count
    /\ gpc' = "returned"
    /\ UNCHANGED <<target_count, provider, accepted, attempts, corpus, candidate,
                   produced, rejection_rate>>
    /\ UNCHANGED <<annotate_vars, jaccard_vars>>

\* cli.py line 59 reporting the share of attempts that were accepted
cli_acceptance_rate(n_reviews, total_attempts) ==
    IF total_attempts # 0
    THEN Frac(n_reviews, total_attempts)
    ELSE Zero

\* cli.py line 59
cli_rejection_rate(n_reviews, total_attempts) ==
    IF total_attempts # 0
    THEN one_minus(Frac(n_reviews, total_attempts))
    ELSE Zero

\* cli.py lines 58-61
Report ==
    /\ gpc = "returned"
    /\ rejection_rate' = cli_rejection_rate(Len(accepted), attempts)
    /\ gpc' = "reported"
    /\ UNCHANGED <<target_count, provider, accepted, attempts, corpus, candidate,
                   produced>>
    /\ UNCHANGED <<annotate_vars, jaccard_vars>>

GuardNext == Request \/ Score \/ Return \/ Report

GuardSpec == GuardInit /\ [][GuardNext]_vars

\* the program is one thread that keeps running: no step waits for ever
GuardFairSpec ==
    /\ GuardSpec
    /\ WF_vars(Request)
    /\ WF_vars(Score)
    /\ WF_vars(Return)
    /\ WF_vars(Report)

\* The list the guardrail loop returned is handed, in the returned order and
\* with the loop's domain keywords, to a summary pass of annotate_quality.
Summarize ==
    /\ gpc \in {"returned", "reported"}
    /\ pc = "idle"
    /\ reviews' = accepted
    /\ pc' = "entry"
    /\ UNCHANGED <<domain_keywords, expected_rating_dist, keywords, seen_token_sets,
                   vocab_divs, novelties, realism_scores, sentiment_scores, rejections,
                   rating_hist, idx, summary, call, first>>
    /\ UNCHANGED <<guardrail_vars, jaccard_vars>>

PipelineNext ==
    \/ Request \/ Score \/ Return \/ Report
    \/ Summarize
    \/ Enter \/ LoopBody \/ Finish

\* a guardrail run followed by a summary of what it returned
PipelineSpec == GuardInit /\ [][PipelineNext]_vars

----------------------------------------------------------------------------
(* jaccard called on its own, on every pair of sets over a few tokens *)

TokenUniverse == {"api", "ci", "bug", "d"}

JaccardInit ==
    /\ AnnotateIdle
    /\ domain_keywords = Absent
    /\ keywords = {}
    /\ GuardrailIdle
    /\ arg_a \in SUBSET TokenUniverse
    /\ arg_b \in SUBSET TokenUniverse
    /\ result = <<>>

\* jaccard(a, b), jaccard(b, a) and jaccard(a, a)
CallJaccard ==
    /\ result = <<>>
    /\ result' = [ab |-> jaccard(arg_a, arg_b),
                  ba |-> jaccard(arg_b, arg_a),
                  aa |-> jaccard(arg_a, arg_a)]
    /\ UNCHANGED <<arg_a, arg_b>>
    /\ UNCHANGED <<annotate_vars, guardrail_vars>>

JaccardNext == CallJaccard

JaccardSpec == JaccardInit /\ [][JaccardNext]_vars

----------------------------------------------------------------------------
(* Properties of one scoring pass *)

\* positions of the list that the current pass, or the one just finished, has scored
Scored == IF call = 1 /\ pc = "entry" THEN {} ELSE 1..idx

\* the token set of each body of the inputs, computed once
TokenSetsOfBodies == [b \in Bodies |-> set(tokenize(b))]

TokenSetOf(k) ==
    IF reviews[k].body \in DOMAIN TokenSetsOfBodies
    THEN TokenSetsOfBodies[reviews[k].body]
    ELSE set(tokenize(reviews[k].body))
Similarity(i, k) == jaccard(TokenSetOf(i), TokenSetOf(k))
Flags(i) == reviews[i].quality.bias_flags
HasFlag(i, f) == \E j \in 1..Len(Flags(i)) : Flags(i)[j] = f
Rejected(i) == reviews[i].quality.is_accepted = PyFalse

\* C1: the semantic_novelty written at position i is 1.0 minus the largest
\* Jaccard similarity to the token sets at positions before i (1.0 at the
\* first position), and the corpus holds the token set of every scored review,
\* accepted or rejected.
C1_NoveltyAgainstPrefix ==
    /\ \A i \in Scored :
          LET sim == FSub(One, reviews[i].quality.semantic_novelty)
          IN IF i = 1
             THEN FEq(reviews[i].quality.semantic_novelty, One)
             ELSE /\ \A k \in 1..(i - 1) : FLe(Similarity(i, k), sim)
                  /\ \E k \in 1..(i - 1) : FEq(Similarity(i, k), sim)
    /\ pc # "entry" => seen_token_sets = [k \in 1..idx |-> TokenSetOf(k)]

\* C1 witness: the third review is closest to a rejected second one, and its
\* novelty is 1 minus that similarity.
C1_Witness ==
    /\ pc = "loop" /\ idx = 3
    /\ Rejected(2)
    /\ FLt(Similarity(3, 1), Similarity(3, 2))
    /\ FLt(Zero, reviews[3].quality.semantic_novelty)
    /\ FEq(reviews[3].quality.semantic_novelty, one_minus(Similarity(3, 2)))

\* C2 as claimed: whenever a body occurs again in the same pass, the later
\* occurrence gets semantic_novelty 0.0 and the flag high_overlap.
C2_RepeatedBodyAnyText ==
    \A i \in Scored : \A k \in 1..(i - 1) :
        reviews[k].body = reviews[i].body
        => /\ FEq(reviews[i].quality.semantic_novelty, Zero)
           /\ HasFlag(i, "high_overlap")

\* C2 amended: whenever a body with at least one token occurs again in the
\* same pass, the later occurrence gets semantic_novelty 0.0 and high_overlap.
C2_RepeatedBodyWithTokens ==
    \A i \in Scored : \A k \in 1..(i - 1) :
        (reviews[k].body = reviews[i].body /\ tokenize(reviews[i].body) # <<>>)
        => /\ FEq(reviews[i].quality.semantic_novelty, Zero)
           /\ HasFlag(i, "high_overlap")

\* C2 witness: a body with tokens scored twice, the second time with novelty 0.0
C2_Witness ==
    /\ pc = "loop" /\ idx = 2
    /\ reviews[1].body = reviews[2].body
    /\ tokenize(reviews[2].body) # <<>>
    /\ FEq(reviews[2].quality.semantic_novelty, Zero)
    /\ HasFlag(2, "high_overlap")

FlagOrder == <<"too_short", "high_overlap", "low_domain_realism", "rating_text_mismatch">>

FlagRule(i, f) ==
    CASE f = "too_short" -> Len(tokenize(reviews[i].body)) < 30
      [] f = "high_overlap" -> \E k \in 1..(i - 1) : FLt(Frac(8, 10), Similarity(i, k))
      [] f = "low_domain_realism" -> FLt(reviews[i].quality.domain_realism, Frac(5, 100))
      [] f = "rating_text_mismatch" ->
            \/ /\ reviews[i].rating >= 4
               /\ TokenSetOf(i) \cap {"bug", "crash", "fail", "broken", "unusable"} # {}
            \/ /\ reviews[i].rating <= 2
               /\ TokenSetOf(i) \cap {"perfect", "flawless", "amazing", "incredible"} # {}

\* C3: bias_flags is the sub-list of FlagOrder, in that order and without
\* repeats, of the flags whose rule holds; rating 3 never has rating_text_mismatch.
C3_FlagsAreTheRulesThatHold ==
    \A i \in Scored :
        /\ Flags(i) = SelectSeq(FlagOrder, LAMBDA f : FlagRule(i, f))
        /\ reviews[i].rating = 3 => ~HasFlag(i, "rating_text_mismatch")

\* C3 witness: one review carries all four flags and another, scored at
\* rating 3 with a lexicon word in its body, carries no rating_text_mismatch.
C3_Witness ==
    /\ \E i \in Scored : Flags(i) = FlagOrder
    /\ \E i \in Scored :
          /\ reviews[i].rating = 3
          /\ TokenSetOf(i) \cap (NegativeWords \cup PositiveHype) # {}
          /\ ~HasFlag(i, "rating_text_mismatch")

\* C4: is_accepted is set, and true exactly when bias_flags is empty; the
\* rejection count is the number of scored reviews with a non-empty bias_flags,
\* and the summary's rejection_rate is that count over n.
C4_AcceptedIffNoFlags ==
    /\ \A i \in Scored :
          /\ reviews[i].quality.is_accepted \in {PyTrue, PyFalse}
          /\ reviews[i].quality.is_accepted = PyTrue <=> Flags(i) = <<>>
    /\ pc # "entry" => rejections = Cardinality({i \in Scored : Flags(i) # <<>>})
    /\ pc = "returned" /\ reviews # <<>>
       => FEq(summary.rejection_rate,
              Frac(Cardinality({i \in 1..Len(reviews) : Flags(i) # <<>>}), Len(reviews)))

\* C4 witness: a finished pass with an accepted and a rejected review
C4_Witness ==
    /\ pc = "returned"
    /\ \E i \in Scored : reviews[i].quality.is_accepted = PyTrue
    /\ \E i \in Scored : Rejected(i) /\ Flags(i) # <<>>
    /\ rejections > 0

----------------------------------------------------------------------------
(* Properties of the summary *)

RECURSIVE SumOver(_, _)
SumOver(h, keys) ==
    IF keys = {} THEN 0
    ELSE LET k == CHOOSE x \in keys : TRUE IN h[k] + SumOver(h, keys \ {k})

InUnit(x) == FLe(Zero, x) /\ FLe(x, One)

\* C7 as claimed: summarizing an empty list with a non-empty expected
\* distribution gives averages 0.0, rejection_rate 0.0, both ratios 0.0, an
\* empty histogram and rating_skew_score 0.0.
C7_EmptySummaryIsAllZero ==
    (pc = "returned" /\ reviews = <<>>
         /\ expected_rating_dist.given /\ DOMAIN expected_rating_dist.value # {})
    => /\ FEq(summary.avg_vocab_diversity, Zero)
       /\ FEq(summary.avg_semantic_novelty, Zero)
       /\ FEq(summary.avg_domain_realism, Zero)
       /\ FEq(summary.avg_sentiment_score, Zero)
       /\ FEq(summary.rejection_rate, Zero)
       /\ FEq(summary.high_rating_ratio, Zero)
       /\ FEq(summary.low_rating_ratio, Zero)
       /\ summary.rating_histogram = <<>>
       /\ FEq(summary.rating_skew_score, Zero)

\* C8: the three ratios of a summary lie in [0,1], the high and low ratios sum
\* to at most 1, the histogram counts sum to the number of reviews, and the
\* histogram's keys are exactly the ratings that occur, each counted >= 1.
C8_SummaryRatiosAndHistogram ==
    pc = "returned"
    => LET h == summary.rating_histogram
       IN /\ InUnit(summary.rejection_rate)
          /\ InUnit(summary.high_rating_ratio)
          /\ InUnit(summary.low_rating_ratio)
          /\ FLe(FAdd(summary.high_rating_ratio, summary.low_rating_ratio), One)
          /\ SumOver(h, DOMAIN h) = Len(reviews)
          /\ DOMAIN h = {reviews[k].rating : k \in 1..Len(reviews)}
          /\ \A r \in DOMAIN h : h[r] >= 1

\* C8 witness: a summary of three reviews, two of them with the same rating
C8_Witness ==
    /\ pc = "returned"
    /\ Len(reviews) = 3
    /\ Cardinality(DOMAIN summary.rating_histogram) = 2
    /\ FLt(Zero, summary.high_rating_ratio)
    /\ FLt(Zero, summary.low_rating_ratio)

\* C9: a second annotate_quality call on the same list with the same arguments
\* writes the quality records the first call wrote and returns its summary.
C9_SecondCallRepeatsFirst ==
    (pc = "returned" /\ call = 2)
    => /\ \A k \in 1..Len(reviews) : reviews[k].quality = first.quality[k]
       /\ summary = first.summary

\* C9 witness: the second call has returned on a list whose second review
\* repeats an earlier one, so its novelty depends on the corpus of the call.
C9_Witness ==
    /\ pc = "returned" /\ call = 2
    /\ Len(reviews) >= 2
    /\ FLt(reviews[2].quality.semantic_novelty, One)
    /\ reviews[1].quality.is_accepted = PyTrue

AllDistinct(tokens) ==
    \A a, b \in 1..Len(tokens) : a # b => tokens[a] # tokens[b]

\* C10 as claimed: vocab_diversity lies in [0,1] and is 1.0 exactly when every
\* token of the body is distinct, the empty token sequence included.
C10_DiversityOneIffDistinct ==
    \A i \in Scored :
        LET v == reviews[i].quality.vocab_diversity
        IN /\ InUnit(v)
           /\ FEq(v, One) <=> AllDistinct(tokenize(reviews[i].body))

\* C10 amended: vocab_diversity lies in [0,1]; for a body with at least one
\* token it is 1.0 exactly when every token is distinct; for a body with no
\* token it is 0.0.
C10_DiversityOneIffDistinctNonEmpty ==
    \A i \in Scored :
        LET v == reviews[i].quality.vocab_diversity
            tokens == tokenize(reviews[i].body)
        IN /\ InUnit(v)
           /\ tokens # <<>> => (FEq(v, One) <=> AllDistinct(tokens))
           /\ tokens = <<>> => FEq(v, Zero)

\* C10 witness: a scored pass with a body of distinct tokens at diversity 1.0,
\* a body with repeated tokens below 1.0 and a body without tokens at 0.0
C10_Witness ==
    /\ \E i \in Scored : /\ Len(tokenize(reviews[i].body)) >= 2
                         /\ FEq(reviews[i].quality.vocab_diversity, One)
    /\ \E i \in Scored : /\ ~AllDistinct(tokenize(reviews[i].body))
                         /\ FLt(reviews[i].quality.vocab_diversity, One)
    /\ \E i \in Scored : /\ tokenize(reviews[i].body) = <<>>
                         /\ FEq(reviews[i].quality.vocab_diversity, Zero)

----------------------------------------------------------------------------
(* Properties of the guardrail loop *)

Returned == gpc \in {"returned", "reported"}

IsAccepted(r) == r.quality.is_accepted = PyTrue

\* C5: when the guardrail loop has returned, accepted holds exactly
\* target_count reviews, each with is_accepted true and no bias flag, in the
\* order the provider produced them, and attempts is the number of provider
\* calls, so at least target_count.
C5_ReturnsTargetCountAccepted ==
    Returned
    => /\ Len(accepted) = target_count
       /\ \A k \in 1..Len(accepted) :
             IsAccepted(accepted[k]) /\ accepted[k].quality.bias_flags = <<>>
       /\ accepted = SelectSeq(produced, IsAccepted)
       /\ attempts = Len(produced)
       /\ attempts >= target_count

\* C5 witness: the loop returned two accepted reviews after a rejected candidate
C5_Witness ==
    /\ gpc = "returned"
    /\ target_count = 2
    /\ Len(accepted) = 2
    /\ attempts > 2
    /\ ~IsAccepted(produced[1])

\* C6 as claimed: with a provider that yields only too_short candidates and
\* target_count = 1, the guardrail loop returns.
C6_ShortOnlyProviderReturns ==
    (provider = "short_only" /\ target_count = 1) ~> Returned

\* C16: the loop's corpus holds the token set of every candidate scored so
\* far, accepted or rejected; a candidate whose token set has a Jaccard
\* similarity above 0.8 with an earlier candidate of the call is rejected with
\* high_overlap; and with a provider that returns the same body on every call
\* at most one review is accepted, so the loop never returns a target_count
\* of 2 or more.
C16_CorpusKeepsRejectedCandidates ==
    /\ corpus = [k \in 1..Len(produced) |-> set(tokenize(produced[k].body))]
    /\ \A k \in 1..Len(produced) :
          (\E j \in 1..(k - 1) : FLt(Frac(8, 10), jaccard(corpus[k], corpus[j])))
          => /\ ~IsAccepted(produced[k])
             /\ \E f \in 1..Len(produced[k].quality.bias_flags) :
                   produced[k].quality.bias_flags[f] = "high_overlap"
    /\ provider = "same_body"
       => /\ Len(accepted) <= 1
          /\ target_count >= 2 => ~Returned

\* C16 witness: a candidate with high_overlap as its only flag, every earlier
\* candidate it resembles having been rejected
C16_Witness ==
    \E k \in 1..Len(produced) :
        /\ produced[k].quality.bias_flags = <<"high_overlap">>
        /\ \A j \in 1..(k - 1) :
              FLt(Frac(8, 10), jaccard(corpus[k], corpus[j])) => ~IsAccepted(produced[j])

\* C16 second witness: the provider that repeats itself had its first body
\* accepted and the same body rejected since, with two reviews wanted
C16_WitnessSameBody ==
    /\ provider = "same_body"
    /\ target_count = 2
    /\ Len(accepted) = 1
    /\ attempts >= 3
    /\ gpc = "test"

\* C13: the rejection rate cli.py reports is 1.0 - (|accepted| / attempts), or
\* 0.0 when attempts is 0; it lies in [0,1], and attempts >= |accepted| at
\* every return of the guardrail loop.
C13_ReportedRejectionRate ==
    /\ Returned => attempts >= Len(accepted)
    /\ gpc = "reported"
       => /\ IF attempts = 0
             THEN FEq(rejection_rate, Zero)
             ELSE FEq(rejection_rate, one_minus(Frac(Len(accepted), attempts)))
          /\ InUnit(rejection_rate)

\* C13 witness: two of three attempts accepted, reported as a rate strictly
\* between 0 and 1
C13_Witness ==
    /\ gpc = "reported"
    /\ attempts = 3
    /\ Len(accepted) = 2
    /\ FLt(Zero, rejection_rate)
    /\ FLt(rejection_rate, One)

\* the caller's expected probability of rating r, 0.0 if it names none
ExpectedOf(r) ==
    IF r \in DOMAIN expected_rating_dist.value
    THEN expected_rating_dist.value[r]
    ELSE Zero

RatingCount(r) == Cardinality({k \in 1..Len(reviews) : reviews[k].rating = r})

\* the observed frequency of rating r, over n = len(reviews) or 1
Observed(r) == Frac(RatingCount(r), IF reviews = <<>> THEN 1 ELSE Len(reviews))

RECURSIVE Gcd(_, _)
Gcd(a, b) == IF b = 0 THEN a ELSE Gcd(b, a % b)

\* a non-negative fraction in lowest terms
Lowest(a) ==
    CHOOSE y \in {Frac(a[1] \div g, a[2] \div g) : g \in {Gcd(a[1], a[2])}} : TRUE

SquaredGap(r) ==
    LET gap == FSub(Observed(r), ExpectedOf(r)) IN Lowest(FMul(gap, gap))

\* the sum of the squared gaps of the ratings 1..5, in lowest terms
SumOfSquaredGaps ==
    Lowest(FAdd(SquaredGap(1),
           Lowest(FAdd(SquaredGap(2),
           Lowest(FAdd(SquaredGap(3),
           Lowest(FAdd(SquaredGap(4), SquaredGap(5)))))))))

ExpectedSupplied ==
    expected_rating_dist.given /\ DOMAIN expected_rating_dist.value # {}

\* C14: rating_skew_score is 0.0 when the expected distribution is absent or
\* empty; otherwise it is the sum over the ratings 1..5 of the squared gap
\* between count(rating)/n and expected.get(rating, 0.0); it is never
\* negative; it is 0.0 when the observed frequencies equal the expected ones
\* on 1..5; a review with a rating outside 1..5 is counted in the histogram and
\* in n, and has no term in the sum.
C14_SkewIsSumOfSquaredGaps ==
    pc = "returned"
    => LET skew == summary.rating_skew_score
           h == summary.rating_histogram
       IN /\ ~ExpectedSupplied => FEq(skew, Zero)
          /\ ExpectedSupplied
             => FEq(Lowest(skew), SumOfSquaredGaps)
          /\ FLe(Zero, skew)
          /\ (\A r \in 1..5 : FEq(Observed(r), ExpectedOf(r))) => FEq(skew, Zero)
          /\ \A k \in 1..Len(reviews) :
                /\ reviews[k].rating \in DOMAIN h
                /\ h[reviews[k].rating] = RatingCount(reviews[k].rating)
          /\ SumOver(h, DOMAIN h) = Len(reviews)

\* C14 witness: three reviews, one rated 7 and one rated 4, summarized against
\* an expected distribution that names the ratings 4 and 7
C14_Witness ==
    /\ pc = "returned"
    /\ Len(reviews) = 3
    /\ RatingCount(7) = 1
    /\ RatingCount(4) = 1
    /\ DOMAIN expected_rating_dist.value = {4, 7}
    /\ summary.rating_histogram[7] = 1
    /\ FLt(Zero, summary.rating_skew_score)

\* C14 second witness: the observed frequencies equal the expected ones
C14_WitnessEqual ==
    /\ pc = "returned"
    /\ ExpectedSupplied
    /\ reviews # <<>>
    /\ \A r \in 1..5 : FEq(Observed(r), ExpectedOf(r))
    /\ FEq(summary.rating_skew_score, Zero)

----------------------------------------------------------------------------
(* Properties of the order of a pass *)

\* positions the pass in progress, or the one that just returned, has scored
ScoredNow == IF pc = "entry" THEN {} ELSE 1..idx

\* positions the second call has scored (the first call's records stand at
\* the others until it reaches them)
ScoredAgain == IF call = 2 THEN ScoredNow ELSE {}

\* C15: the record written at a position depends on the reviews up to that
\* position only: annotate_quality(L + M) writes to each review of L the
\* record annotate_quality(L) wrote; the first review of a pass has
\* semantic_novelty 1.0 and no high_overlap; and a review B scored last, after
\* a review it has a non-zero Jaccard similarity with, gets another
\* semantic_novelty than when the list is reversed and B is scored first.
C15_NoveltyIsAgainstThePrefix ==
    /\ (call = 2 /\ first.kind = "extended")
       => \A k \in ScoredAgain \cap (1..Len(first.quality)) :
             reviews[k].quality = first.quality[k]
    /\ 1 \in ScoredNow
       => /\ FEq(reviews[1].quality.semantic_novelty, One)
          /\ ~HasFlag(1, "high_overlap")
    /\ (call = 2 /\ first.kind = "reversed" /\ 1 \in ScoredAgain)
       => ((\E k \in 2..Len(reviews) : FLt(Zero, Similarity(1, k)))
             => ~FEq(reviews[1].quality.semantic_novelty,
                     first.quality[Len(reviews)].semantic_novelty))

\* C15 witness: the second call, on the first call's two reviews and a third,
\* has returned; the second review overlaps the first and the third overlaps
\* both
C15_Witness ==
    /\ call = 2 /\ first.kind = "extended" /\ pc = "returned"
    /\ Len(first.quality) = 2
    /\ Len(reviews) = 3
    /\ FLt(reviews[2].quality.semantic_novelty, One)
    /\ FLt(reviews[3].quality.semantic_novelty, reviews[2].quality.semantic_novelty)
    /\ reviews[2].quality = first.quality[2]

\* C15 second witness: [A, B] reversed, B's novelty below 1.0 in [A, B] and
\* 1.0 in [B, A]
C15_WitnessReversed ==
    /\ call = 2 /\ first.kind = "reversed" /\ pc = "returned"
    /\ Len(reviews) = 2
    /\ FLt(Zero, Similarity(1, 2))
    /\ FLt(first.quality[2].semantic_novelty, One)
    /\ FEq(reviews[1].quality.semantic_novelty, One)

----------------------------------------------------------------------------
(* Properties of jaccard *)

\* C11: jaccard(a, b) equals jaccard(b, a) and lies in [0,1]; jaccard(a, a) is
\* 1.0 for a non-empty a; jaccard of two empty sets is 0.0; and jaccard(a, b)
\* is 0.0 exactly when a and b have no token in common.
C11_JaccardAlgebra ==
    result # <<>>
    => /\ FEq(result.ab, result.ba)
       /\ InUnit(result.ab)
       /\ arg_a # {} => FEq(result.aa, One)
       /\ (arg_a = {} /\ arg_b = {}) => FEq(result.ab, Zero)
       /\ FEq(result.ab, Zero) <=> (arg_a \cap arg_b = {})

\* C11 witness: two different sets that share a token, strictly between 0 and 1
C11_Witness ==
    /\ result # <<>>
    /\ arg_a # arg_b
    /\ arg_a \cap arg_b # {}
    /\ FLt(Zero, result.ab) /\ FLt(result.ab, One)
    /\ FEq(result.aa, One)

----------------------------------------------------------------------------
(* Properties of reviews at the edge of the input domain *)

NoTokens(i) == tokenize(reviews[i].body) = <<>>

\* C12 as claimed: a review whose body has no token gets vocab_diversity,
\* semantic_novelty, domain_realism and sentiment 0.0 and is rejected with
\* too_short among its flags, at whatever position it is scored.
C12_NoTokensAllZero ==
    \A i \in Scored :
        NoTokens(i)
        => /\ FEq(reviews[i].quality.vocab_diversity, Zero)
           /\ FEq(reviews[i].quality.semantic_novelty, Zero)
           /\ FEq(reviews[i].quality.domain_realism, Zero)
           /\ FEq(sentiment_scores[i], Zero)
           /\ Rejected(i)
           /\ HasFlag(i, "too_short")

\* C12 amended: a review whose body has no token gets vocab_diversity,
\* domain_realism and sentiment 0.0 and semantic_novelty 1.0, and is rejected
\* with the flags too_short and low_domain_realism, at whatever position it is
\* scored.
C12_NoTokensZeroButNovelty ==
    \A i \in Scored :
        NoTokens(i)
        => /\ FEq(reviews[i].quality.vocab_diversity, Zero)
           /\ FEq(reviews[i].quality.semantic_novelty, One)
           /\ FEq(reviews[i].quality.domain_realism, Zero)
           /\ FEq(sentiment_scores[i], Zero)
           /\ Rejected(i)
           /\ Flags(i) = <<"too_short", "low_domain_realism">>

\* C12 witness: a punctuation-only body scored third, after a body with tokens
\* and an empty body
C12_Witness ==
    /\ pc = "loop" /\ idx = 3
    /\ ~NoTokens(1)
    /\ reviews[2].body = BodyEmpty
    /\ reviews[3].body = BodyPunct
    /\ FEq(reviews[3].quality.semantic_novelty, One)
    /\ Rejected(3)

----------
(* Properties of domain_realism *)

\* C17: the domain_realism written for a review is the number of its distinct
\* tokens among the keywords over the number of keywords, within [0,1]; with
\* no domain_keywords argument the keywords are the 20 default terms and
\* low_domain_realism is set exactly when the body holds none of them; with an
\* empty keyword collection domain_realism is 0.0 and low_domain_realism is
\* set for every review, and the rejection_rate of a non-empty list is 1.0.
C17_DomainRealism ==
    /\ \A i \in ScoredNow :
          /\ keywords # {}
             => FEq(reviews[i].quality.domain_realism,
                    Frac(Cardinality(TokenSetOf(i) \cap keywords), Cardinality(keywords)))
          /\ FLe(Zero, reviews[i].quality.domain_realism)
          /\ FLe(reviews[i].quality.domain_realism, One)
          /\ ~domain_keywords.given
             => /\ keywords = DefaultDomainKeywords
                /\ Cardinality(keywords) = 20
                /\ HasFlag(i, "low_domain_realism")
                   <=> TokenSetOf(i) \cap DefaultDomainKeywords = {}
          /\ domain_keywords = Given(<<>>)
             => /\ FEq(reviews[i].quality.domain_realism, Zero)
                /\ HasFlag(i, "low_domain_realism")
    /\ pc = "returned" /\ domain_keywords = Given(<<>>) /\ reviews # <<>>
       => FEq(summary.rejection_rate, One)

\* C17 witness: a pass with an empty keyword collection over two reviews, one
\* of them with low_domain_realism as its only flag
C17_Witness ==
    /\ pc = "returned"
    /\ domain_keywords = Given(<<>>)
    /\ Len(reviews) >= 2
    /\ FEq(summary.rejection_rate, One)
    /\ \E i \in 1..Len(reviews) : Flags(i) = <<"low_domain_realism">>

\* C17 second witness: a pass with the default keywords over a review with one
\* default term, not flagged for it, and a review of 30 tokens with none,
\* flagged for that alone
C17_WitnessDefaults ==
    /\ pc = "returned"
    /\ ~domain_keywords.given
    /\ \E i, j \in 1..Len(reviews) :
          /\ FEq(reviews[i].quality.domain_realism, Frac(1, 20))
          /\ ~HasFlag(i, "low_domain_realism")
          /\ Len(tokenize(reviews[j].body)) >= MinTokens
          /\ Flags(j) = <<"low_domain_realism">>

----------
(* Properties of the accepted reviews of a pass *)

Accepted(i) == reviews[i].quality.is_accepted = PyTrue

\* what an accepted review satisfies whatever the novelty bound: at least 30
\* tokens, domain_realism >= 0.05, Jaccard similarity at most 0.8 with every
\* review before it, and so with every other accepted review of the pass
AcceptedWithinLimits(i) ==
    /\ Len(tokenize(reviews[i].body)) >= 30
    /\ FLe(Frac(5, 100), reviews[i].quality.domain_realism)
    /\ \A j \in 1..(i - 1) : FLe(Similarity(i, j), Frac(8, 10))
    /\ \A j \in 1..Len(reviews) :
          j # i /\ Accepted(j) => FLe(Similarity(i, j), Frac(8, 10))

\* C18 as stated: after a pass every accepted review has at least 30 tokens,
\* domain_realism >= 0.05 and semantic_novelty >= 0.2, and a Jaccard
\* similarity of at most 0.8 with every review scored before it, hence with
\* every other accepted review.
C18_AcceptedNoveltyAtLeastFifth ==
    pc = "returned"
    => \A i \in 1..Len(reviews) :
          Accepted(i)
          => /\ AcceptedWithinLimits(i)
             /\ FLe(Frac(2, 10), reviews[i].quality.semantic_novelty)

\* C18 amended: the same with the novelty bound the subtraction gives: the
\* semantic_novelty of an accepted review is at least the double 1.0 - 0.8,
\* which is 0.19999999999999996 and below 0.2.
C18_AcceptedNoveltyAtLeastOneMinusLimit ==
    pc = "returned"
    => \A i \in 1..Len(reviews) :
          Accepted(i)
          => /\ AcceptedWithinLimits(i)
             /\ FLe(one_minus(Frac(8, 10)), reviews[i].quality.semantic_novelty)

\* C18 witness: an accepted review whose largest similarity, to an accepted
\* review before it, is exactly 0.8, and whose semantic_novelty is below 0.2
C18_Witness ==
    /\ pc = "returned"
    /\ \E i \in 1..Len(reviews) :
          /\ Accepted(i)
          /\ \E j \in 1..(i - 1) : Accepted(j) /\ FEq(Similarity(i, j), Frac(8, 10))
          /\ FEq(reviews[i].quality.semantic_novelty, one_minus(Frac(8, 10)))
          /\ FLt(reviews[i].quality.semantic_novelty, Frac(2, 10))

----------
(* Properties of a summary of what the guardrail loop returned *)

\* C19: when the list the guardrail loop returned is summarized in the
\* returned order with the same domain keywords, every review is accepted
\* again, with a semantic_novelty at least the one it got inside the loop, and
\* the summary's rejection_rate is 0.0.
C19_SummaryAcceptsWhatTheLoopAccepted ==
    /\ pc \in {"entry", "loop", "returned"}
       => /\ Len(reviews) = Len(accepted)
          /\ \A k \in 1..Len(reviews) :
                reviews[k].body = accepted[k].body /\ reviews[k].rating = accepted[k].rating
          /\ \A k \in ScoredNow :
                /\ Accepted(k)
                /\ Flags(k) = <<>>
                /\ FLe(accepted[k].quality.semantic_novelty,
                       reviews[k].quality.semantic_novelty)
    /\ pc = "returned" => FEq(summary.rejection_rate, Zero)

\* C19 witness: a summary of two returned reviews, the second with a larger
\* semantic_novelty than inside the loop, where a rejected candidate stood
\* between the two
C19_Witness ==
    /\ pc = "returned"
    /\ Len(accepted) = 2
    /\ attempts > 2
    /\ FEq(summary.rejection_rate, Zero)
    /\ FLt(accepted[2].quality.semantic_novelty, reviews[2].quality.semantic_novelty)
    /\ FLt(reviews[2].quality.semantic_novelty, One)

====
